---- MODULE Spec2Model ----
(***************************************************************************)
(* Order lifecycle and payment reconciliation of the ayurvedic backend:    *)
(* create_order (app/orders.py), razorpay_webhook (app/payments.py),       *)
(* update_order_status (app/admin.py) and the token decorators             *)
(* (app/decorators.py), over a MongoDB "orders" and "users" collection.    *)
(*                                                                         *)
(* Conventions.  Money is fixed point: a price is a number of mills        *)
(* (1/1000 of a rupee), a stored totalAmount a number of paise (1/100).    *)
(* A datetime is a number of clock ticks, a day is TicksPerDay ticks.      *)
(* Python None / a missing key is "" for strings and NoTime for datetimes. *)
(* An order's _id is its index in the sequence orders (insertion order).   *)
(***************************************************************************)
EXTENDS Integers, Sequences, FiniteSets, TLC

VARIABLES
    users,      \* db.users: user id -> [username, email, isAdmin]
    orders,     \* db.orders: sequence of order documents
    hs,         \* webhook requests in flight: slot -> handler state
    ops,        \* signup, delete_user and update_user requests past their checks
    clock,      \* datetime.utcnow(), in ticks
    secret,     \* app.config['RAZORPAY_WEBHOOK_SECRET'] ("" when not configured)
    last        \* the operation that took the latest step, and its response

vars == <<users, orders, ops, hs, clock, secret, last>>

----------------------------------------------------------------------------
(* Bounds of the model *)

MaxOrders == 1          \* documents in db.orders
MaxInFlight == 1        \* webhook requests of a run of the whole application
MaxDeliveries == 2      \* webhook requests of a run of the webhook alone
MaxClock == 1           \* clock ticks in a run
MaxCart == 2            \* items in a cart
MaxUserOps == 2         \* signup, delete_user and update_user requests that reach their write

TicksPerDay == MaxClock + 1
NoTime == -1

----------------------------------------------------------------------------
(* Users and the token decorators *)

UserIds == {"u1", "u2", "u3"}

NoToken == [kind |-> "none", user_id |-> ""]
BadToken == [kind |-> "invalid", user_id |-> ""]
TokenOf(u) == [kind |-> "jwt", user_id |-> u]
Tokens == {NoToken, BadToken} \cup {TokenOf(u) : u \in UserIds}

\* a token whose payload says isAdmin: issued by login while the user was an
\* admin (auth.py 106-111)
AdminTokenOf(u) == TokenOf(u) @@ [isAdmin |-> TRUE]

\* token_required without the lookup of the user in db.users
TokenRequiredNoLookup(tok) ==
    IF tok.kind # "jwt" \/ tok.user_id = ""
    THEN [code |-> 401, id |-> "", isAdmin |-> FALSE]
    ELSE [code |-> 0, id |-> tok.user_id, isAdmin |-> FALSE]

\* decorators.py token_required: 0 = the wrapped handler runs with g.current_user
TokenRequired(tok) ==
    IF tok.kind = "none" THEN [code |-> 401, id |-> "", isAdmin |-> FALSE]
    ELSE IF tok.kind = "invalid" THEN [code |-> 401, id |-> "", isAdmin |-> FALSE]
    ELSE IF tok.user_id = "" THEN [code |-> 401, id |-> "", isAdmin |-> FALSE]
    ELSE IF tok.user_id \notin DOMAIN users
         THEN [code |-> 401, id |-> "", isAdmin |-> FALSE]
    ELSE [code |-> 0, id |-> tok.user_id, isAdmin |-> users[tok.user_id].isAdmin]

\* admin_required deciding from the token's isAdmin claim
AdminRequiredByClaim(tok) ==
    LET r == TokenRequired(tok) IN
    IF r.code # 0 THEN r
    ELSE IF ~("isAdmin" \in DOMAIN tok /\ tok.isAdmin)
    THEN [code |-> 403, id |-> r.id, isAdmin |-> FALSE]
    ELSE [r EXCEPT !.isAdmin = TRUE]

\* decorators.py admin_required
AdminRequired(tok) ==
    LET r == TokenRequired(tok) IN
    IF r.code # 0 THEN r
    ELSE IF ~r.isAdmin THEN [code |-> 403, id |-> r.id, isAdmin |-> FALSE]
    ELSE r

----------------------------------------------------------------------------
(* create_order *)

\* A cart item as sent by the client.  pk says what the 'price' key holds:
\* "missing" (absent, None or ''), "bad" (a string float() rejects) or "num"
\* (pv mills).  qk likewise for 'quantity': "bad" (int() rejects) or "num".
Item(pk, pv, qk, qv, id, name) ==
    [pk |-> pk, pv |-> pv, qk |-> qk, qv |-> qv, id |-> id, name |-> name]

\* Round2 rounding toward zero
Truncate2(mills) == mills \div 10

\* round(total_amount, 2): mills to paise, to nearest, ties to even
Round2(mills) ==
    LET q == mills \div 10
        r == mills % 10
    IN IF r < 5 THEN q
       ELSE IF r > 5 THEN q + 1
       ELSE IF q % 2 = 0 THEN q ELSE q + 1

\* PriceCart skipping the items it should reject
RECURSIVE PriceCartLenient(_, _, _)
PriceCartLenient(cart, total, items) ==
    IF cart = <<>> THEN [code |-> 0, total |-> total, items |-> items]
    ELSE LET it == Head(cart) IN
         IF it.pk # "num" \/ it.qk # "num" \/ it.pv <= 0 \/ it.qv <= 0
            \/ it.id = "" \/ it.name = ""
         THEN PriceCartLenient(Tail(cart), total, items)
         ELSE PriceCartLenient(Tail(cart), total + it.pv * it.qv,
                        Append(items, [productId |-> it.id, productName |-> it.name,
                                       quantity |-> it.qv, price |-> it.pv]))

\* orders.py 52-77: the loop over the cart.  Result: [code, total (mills), items]
RECURSIVE PriceCart(_, _, _)
PriceCart(cart, total, items) ==
    IF cart = <<>> THEN [code |-> 0, total |-> total, items |-> items]
    ELSE LET it == Head(cart) IN
         IF it.pk = "missing" THEN [code |-> 400, total |-> total, items |-> items]
         ELSE IF it.pk = "bad" \/ it.qk = "bad"
              THEN [code |-> 400, total |-> total, items |-> items]
         ELSE IF it.pv <= 0 \/ it.qv <= 0 \/ it.id = "" \/ it.name = ""
              THEN [code |-> 400, total |-> total, items |-> items]
         ELSE PriceCart(Tail(cart), total + it.pv * it.qv,
                        Append(items, [productId |-> it.id, productName |-> it.name,
                                       quantity |-> it.qv, price |-> it.pv]))

\* the razorpay sub-document holding a gateway order id
RazorpayWithOrderId == [orderId |-> "order_A", paymentId |-> "", webhookVerifiedAt |-> NoTime]

NoRazorpay == [orderId |-> "", paymentId |-> "", webhookVerifiedAt |-> NoTime]

\* OrderDoc leaving a cod order pending
OrderDocPending(user_id, priced, method, address, t1, t2, days) ==
    [userId |-> user_id,
     totalAmount |-> Round2(priced.total),
     paymentMethod |-> method,
     paymentStatus |-> "pending",
     orderDate |-> t1,
     shippingAddress |-> address.val,
     items |-> priced.items,
     razorpay |-> NoRazorpay,
     estimatedDeliveryDate |-> IF method = "cod" THEN t2 + days * TicksPerDay ELSE NoTime]

\* orders.py 82-107: the order document
OrderDoc(user_id, priced, method, address, t1, t2, days) ==
    [userId |-> user_id,
     totalAmount |-> Round2(priced.total),
     paymentMethod |-> method,
     paymentStatus |-> IF method = "cod" THEN "processing" ELSE "pending",
     orderDate |-> t1,
     shippingAddress |-> address.val,
     items |-> priced.items,
     razorpay |-> NoRazorpay,
     estimatedDeliveryDate |-> IF method = "cod" THEN t2 + days * TicksPerDay ELSE NoTime]

\* orders.py 17-79: the response code of a request that is rejected before the
\* insert, 0 when the order is built and inserted
CreateOrderCheck(tok, data) ==
    LET auth == TokenRequired(tok) IN
    IF auth.code # 0 THEN auth.code
    ELSE IF data.kind = "none" THEN 400
    ELSE IF \/ data.cart.kind = "missing"
            \/ (data.cart.kind = "list" /\ data.cart.items = <<>>)
            \/ data.method = ""
            \/ data.address.kind = "missing" THEN 400
    ELSE IF data.cart.kind # "list" THEN 400
    ELSE IF data.method # "cod" THEN 400
    ELSE IF data.address.kind # "dict" THEN 400
    ELSE LET priced == PriceCart(data.cart.items, 0, <<>>) IN
         IF priced.code # 0 THEN priced.code
         ELSE IF priced.total <= 0 THEN 400
         ELSE 0

\* POST /orders/create.  last keeps the request next to its response.
CreateOrder(tok, data) ==
    LET code == CreateOrderCheck(tok, data) IN
    IF code # 0
    THEN /\ last' = [op |-> "create_order", code |-> code, tok |-> tok, data |-> data,
                     status |-> ""]
         /\ UNCHANGED <<users, ops, orders, hs, clock, secret>>
    ELSE \E t1 \in {clock, clock + 1}, days \in {4, 5} :
         \E t2 \in {t1, t1 + 1} :
            LET order_doc == OrderDoc(TokenRequired(tok).id,
                                      PriceCart(data.cart.items, 0, <<>>),
                                      data.method, data.address, t1, t2, days)
            IN
            /\ t2 <= MaxClock
            /\ orders' = Append(orders, order_doc)
            /\ clock' = t2
            /\ last' = [op |-> "create_order", code |-> 201, tok |-> tok, data |-> data,
                        status |-> order_doc.paymentStatus]
            /\ UNCHANGED <<users, ops, hs, secret>>

\* an order as a query returns it: the document with its _id as 'id'
Shown(order_id) == [id |-> order_id, doc |-> orders[order_id]]

\* find(...).sort('orderDate', -1) over the orders ids: the orders in an order
\* of descending orderDate (the store settles ties)
ByDateDesc(ids) ==
    {s \in [1..Cardinality(ids) -> ids] :
        /\ \A j, k \in DOMAIN s : j # k => s[j] # s[k]
        /\ \A j, k \in DOMAIN s :
              j < k => orders[s[j]].orderDate >= orders[s[k]].orderDate}

\* GET /orders/my-orders: find({'userId': ...}) and a response built from copies
\* of the documents; the store is not written.  last keeps the request next
\* to its response.
GetMyOrders(tok) ==
    LET auth == TokenRequired(tok) IN
    /\ IF auth.code # 0
       THEN last' = [op |-> "get_my_orders", code |-> auth.code, tok |-> tok, body |-> <<>>]
       ELSE \E s \in ByDateDesc({i \in 1..Len(orders) : orders[i].userId = auth.id}) :
               last' = [op |-> "get_my_orders", code |-> 200, tok |-> tok,
                        body |-> [k \in DOMAIN s |-> Shown(s[k])]]
    /\ UNCHANGED <<users, ops, orders, hs, clock, secret>>

\* GetOrderDetails with find_one by _id alone
GetOrderDetailsUnscoped(tok, order_id) ==
    LET auth == TokenRequired(tok)
        answer == IF auth.code # 0 THEN [code |-> auth.code, message |-> "token", body |-> <<>>]
                  ELSE IF order_id = 0
                  THEN [code |-> 400, message |-> "Invalid Order ID format", body |-> <<>>]
                  ELSE IF order_id \notin 1..Len(orders)
                  THEN [code |-> 404, message |-> "Order not found or access denied",
                        body |-> <<>>]
                  ELSE [code |-> 200, message |-> "", body |-> <<Shown(order_id)>>]
    IN
    /\ last' = [op |-> "get_order_details", code |-> answer.code, tok |-> tok,
                id |-> order_id, message |-> answer.message, body |-> answer.body]
    /\ UNCHANGED <<users, ops, orders, hs, clock, secret>>

\* GET /orders/<order_id>: find_one({'_id': ..., 'userId': ...}); order_id 0 is a
\* string ObjectId() rejects; the store is not written
GetOrderDetails(tok, order_id) ==
    LET auth == TokenRequired(tok)
        answer == IF auth.code # 0 THEN [code |-> auth.code, message |-> "token", body |-> <<>>]
                  ELSE IF order_id = 0
                  THEN [code |-> 400, message |-> "Invalid Order ID format", body |-> <<>>]
                  ELSE IF order_id \notin 1..Len(orders)
                  THEN [code |-> 404, message |-> "Order not found or access denied",
                        body |-> <<>>]
                  ELSE IF orders[order_id].userId # auth.id
                  THEN [code |-> 404, message |-> "Order not found or access denied",
                        body |-> <<>>]
                  ELSE [code |-> 200, message |-> "", body |-> <<Shown(order_id)>>]
    IN
    /\ last' = [op |-> "get_order_details", code |-> answer.code, tok |-> tok,
                id |-> order_id, message |-> answer.message, body |-> answer.body]
    /\ UNCHANGED <<users, ops, orders, hs, clock, secret>>

----------------------------------------------------------------------------
(* razorpay_webhook *)

\* A raw request body.  kind "json" parses to the event below; kind "malformed"
\* makes request.get_json() raise.  "" is an absent key.
Body(kind, event, order_id, id, status) ==
    [kind |-> kind, event |-> event, order_id |-> order_id, id |-> id, status |-> status]

\* The X-Razorpay-Signature header: absent, empty, a string that is not ASCII,
\* or a hex digest, written as the key and message it is the HMAC-SHA256 of.
NoMsg == Body("malformed", "", "", "", "")
NoSignature == [kind |-> "missing", key |-> "", msg |-> NoMsg]
EmptySignature == [kind |-> "empty", key |-> "", msg |-> NoMsg]
NonAsciiSignature == [kind |-> "nonascii", key |-> "", msg |-> NoMsg]

\* payments.py 85-89: hmac.new(secret, body, sha256).hexdigest()
HMAC(key, body) == [kind |-> "hex", key |-> key, msg |-> body]

\* VerifySignature without the comparison of the digest with the header
VerifySignatureNoCompare(key, body, sig) ==
    IF key = "" THEN 500
    ELSE IF sig.kind \in {"missing", "empty"} THEN 400
    ELSE 0

\* VerifySignature without the check that a secret is configured
VerifySignatureUnkeyed(key, body, sig) ==
    IF sig.kind \in {"missing", "empty"} THEN 400
    ELSE IF sig.kind = "nonascii" THEN 500
    ELSE IF HMAC(key, body) # sig THEN 400
    ELSE 0

\* payments.py 75-97: the response code of a request rejected by the signature
\* check, 0 when the event is verified
VerifySignature(key, body, sig) ==
    IF key = "" THEN 500
    ELSE IF sig.kind \in {"missing", "empty"} THEN 400
    ELSE IF sig.kind = "nonascii" THEN 500
    ELSE IF HMAC(key, body) # sig THEN 400
    ELSE 0

\* WebhookFinalStatuses without completed
FinalStatusesNoCompleted == {"failed", "refunded"}

\* WebhookFinalStatuses without failed
FinalStatusesNoFailed == {"completed", "refunded"}

\* payments.py 115, 142: the statuses that make a webhook event a no-op
WebhookFinalStatuses == {"completed", "failed", "refunded"}

\* find_one without its filter: the first order of the collection
FindAnyOrder(ref) == IF orders = <<>> THEN 0 ELSE 1

\* db.orders.find_one({'razorpay.orderId': ref}): the _id of the first match, 0 if none
FindByRazorpayOrderId(ref) ==
    LET hits == {i \in 1..Len(orders) : orders[i].razorpay.orderId = ref} IN
    IF hits = {} THEN 0 ELSE CHOOSE i \in hits : \A j \in hits : i <= j

\* EventTarget taking a payment.captured event whatever its entity's status
EventTargetAnyStatus(body) ==
    IF body.event = "payment.captured"
    THEN IF body.order_id # "" THEN "completed" ELSE ""
    ELSE IF body.event = "payment.failed"
    THEN IF body.order_id # "" THEN "failed" ELSE ""
    ELSE ""

\* payments.py 107-113, 135-140: the status the event asks for, "" when the event
\* is ignored before any lookup
EventTarget(body) ==
    IF body.event = "payment.captured"
    THEN IF body.order_id # "" /\ body.status = "captured" THEN "completed" ELSE ""
    ELSE IF body.event = "payment.failed"
    THEN IF body.order_id # "" THEN "failed" ELSE ""
    ELSE ""

\* MayTransition letting only pending orders through
MayTransitionPendingOnly(order) == order.paymentStatus = "pending"

\* payments.py 115, 142: the guard between find_one and update_one
MayTransition(order) == order.paymentStatus \notin WebhookFinalStatuses

\* WebhookSet without the payment id
WebhookSetStatusOnly(order, target, payment_id, now) ==
    [order EXCEPT !.paymentStatus = target,
                  !.razorpay = [@ EXCEPT !.webhookVerifiedAt = now]]

\* payments.py 116-123, 144-151: the $set of the webhook's update_one
WebhookSet(order, target, payment_id, now) ==
    [order EXCEPT !.paymentStatus = target,
                  !.razorpay = [@ EXCEPT !.paymentId = payment_id,
                                         !.webhookVerifiedAt = now]]

IdleHandler ==
    [pc |-> "idle", body |-> NoMsg, sig |-> NoSignature, order |-> 0, seen |-> "",
     code |-> 0, status |-> "", lookups |-> 0, writes |-> 0, applied |-> FALSE]

\* the webhook requests of the run
Handlers == DOMAIN hs

\* POST /payments/razorpay/webhook up to and including find_one (payments.py 71-115,
\* 136-142): the request is answered, or holds the order it found and goes on to
\* update_one
WebhookReceive(h, body, sig) ==
    /\ hs[h].pc = "idle"
    /\ \A g \in Handlers : g < h => hs[g].pc # "idle"    \* slots are taken in order
    /\ LET rejected == VerifySignature(secret, body, sig)
           target == EventTarget(body)
           found == FindByRazorpayOrderId(body.order_id)
           req == [IdleHandler EXCEPT !.body = body, !.sig = sig]
       IN
       /\ hs' = [hs EXCEPT ![h] =
            IF rejected # 0
            THEN [req EXCEPT !.pc = "done", !.code = rejected, !.status = "error"]
            ELSE IF body.kind = "malformed"
            THEN [req EXCEPT !.pc = "done", !.code = 200,
                             !.status = "error processing payload"]
            ELSE IF target = ""
            THEN [req EXCEPT !.pc = "done", !.code = 200, !.status = "ok"]
            ELSE IF found = 0
            THEN [req EXCEPT !.pc = "done", !.code = 200, !.status = "ok",
                             !.lookups = 1]
            ELSE IF ~MayTransition(orders[found])
            THEN [req EXCEPT !.pc = "done", !.code = 200, !.status = "ok",
                             !.lookups = 1, !.order = found,
                             !.seen = orders[found].paymentStatus]
            ELSE [req EXCEPT !.pc = "found", !.lookups = 1, !.order = found,
                             !.seen = orders[found].paymentStatus]]
       /\ last' = [op |-> "webhook", code |-> hs'[h].code]
       /\ UNCHANGED <<users, ops, orders, clock, secret>>

\* update_one({'_id': order['_id']}, {'$set': ...}) and the response
\* (payments.py 116-127, 144-156, 170)
WebhookUpdate(h) ==
    /\ hs[h].pc = "found"
    /\ \E now \in {clock, clock + 1} :
        /\ now <= MaxClock
        /\ LET id == hs[h].order
               doc == WebhookSet(orders[id], EventTarget(hs[h].body), hs[h].body.id, now)
           IN /\ orders' = [orders EXCEPT ![id] = doc]
              /\ hs' = [hs EXCEPT ![h] = [@ EXCEPT !.pc = "done", !.code = 200,
                                                   !.status = "ok", !.writes = 1,
                                                   !.applied = (doc # orders[id])]]
        /\ clock' = now
    /\ last' = [op |-> "webhook", code |-> 200]
    /\ UNCHANGED <<users, ops, secret>>

\* WebhookFindFails answering 500 for the store error
WebhookFindFails500(h, body, sig) ==
    /\ hs[h].pc = "idle"
    /\ \A g \in DOMAIN hs : g < h => hs[g].pc # "idle"
    /\ VerifySignature(secret, body, sig) = 0
    /\ body.kind = "json"
    /\ hs' = [hs EXCEPT ![h] =
            [pc |-> "done", body |-> body, sig |-> sig, order |-> 0, seen |-> "",
             code |-> 500, status |-> "error", lookups |-> 1, writes |-> 0,
             applied |-> FALSE]]
    /\ last' = [op |-> "webhook", code |-> 500]
    /\ UNCHANGED <<users, ops, orders, clock, secret>>

\* POST /payments/razorpay/webhook of a verified event when find_one raises (the
\* store is unreachable, payments.py 114, 141): the except clause of payments.py
\* 166-168 answers 200
WebhookFindFails(h, body, sig) ==
    /\ hs[h].pc = "idle"
    /\ \A g \in Handlers : g < h => hs[g].pc # "idle"
    /\ VerifySignature(secret, body, sig) = 0
    /\ body.kind = "json"
    /\ EventTarget(body) # ""
    /\ hs' = [hs EXCEPT ![h] =
            [IdleHandler EXCEPT !.body = body, !.sig = sig, !.pc = "done", !.code = 200,
                                !.status = "error processing payload", !.lookups = 1]]
    /\ last' = [op |-> "webhook", code |-> 200]
    /\ UNCHANGED <<users, ops, orders, clock, secret>>

\* update_one raises (payments.py 116, 144, then 166-168).  The store may have
\* applied the write before the connection was lost (landed) or not.
WebhookUpdateFails(h) ==
    /\ hs[h].pc = "found"
    /\ \E landed \in BOOLEAN, now \in {clock, clock + 1} :
        /\ now <= MaxClock
        /\ LET id == hs[h].order
               doc == IF landed
                      THEN WebhookSet(orders[id], EventTarget(hs[h].body), hs[h].body.id, now)
                      ELSE orders[id]
           IN /\ orders' = [orders EXCEPT ![id] = doc]
              /\ hs' = [hs EXCEPT ![h] =
                    [@ EXCEPT !.pc = "done", !.code = 200,
                              !.status = "error processing payload",
                              !.writes = IF landed THEN 1 ELSE 0,
                              !.applied = (doc # orders[id])]]
        /\ clock' = now
    /\ last' = [op |-> "webhook", code |-> 200]
    /\ UNCHANGED <<users, ops, secret>>

----------------------------------------------------------------------------
(* update_order_status *)

\* ALLOWED_ORDER_STATUSES with refunded added
AllowedWithRefunded ==
    {"processing", "pending", "shipped", "delivered", "completed", "cancelled", "failed",
     "refunded"}

\* admin.py 11
ALLOWED_ORDER_STATUSES ==
    {"processing", "pending", "shipped", "delivered", "completed", "cancelled", "failed"}

\* str.lower() on the status strings a request may carry
Lower(s) ==
    CASE s = "Cancelled" -> "cancelled"
      [] s = "SHIPPED" -> "shipped"
      [] OTHER -> s

\* admin.py 314-337: the response code of a request rejected before update_one,
\* 0 when update_one runs.  order_id 0 is a string ObjectId() rejects; data.kind
\* is "none" (no body), "nostatus" (no 'status' key), "nonstring" or "str".
UpdateOrderStatusCheck(tok, order_id, data) ==
    LET auth == AdminRequired(tok) IN
    IF auth.code # 0 THEN auth.code
    ELSE IF data.kind \in {"none", "nostatus"} THEN 400
    ELSE IF data.kind = "nonstring" THEN 500
    ELSE IF Lower(data.status) \notin ALLOWED_ORDER_STATUSES THEN 400
    ELSE IF order_id = 0 THEN 400
    ELSE 0

\* AdminSet also writing the total
AdminSetRepriced(order, new_status) ==
    [order EXCEPT !.paymentStatus = new_status, !.totalAmount = 0]

\* admin.py 333-337: the $set of update_order_status
AdminSet(order, new_status) == [order EXCEPT !.paymentStatus = new_status]

\* PUT /orders/<order_id>/status
UpdateOrderStatus(tok, order_id, data) ==
    LET code == UpdateOrderStatusCheck(tok, order_id, data) IN
    IF code # 0
    THEN /\ last' = [op |-> "update_order_status", code |-> code]
         /\ UNCHANGED <<users, ops, orders, hs, clock, secret>>
    ELSE IF order_id \notin 1..Len(orders)
    THEN /\ last' = [op |-> "update_order_status", code |-> 404]
         /\ UNCHANGED <<users, ops, orders, hs, clock, secret>>
    ELSE /\ orders' = [orders EXCEPT ![order_id] = AdminSet(@, Lower(data.status))]
         /\ last' = [op |-> "update_order_status", code |-> 200]
         /\ UNCHANGED <<users, ops, hs, clock, secret>>

----------------------------------------------------------------------------
(* create_razorpay_order *)

\* The 'amount' of the request JSON.  k says what the key holds: "missing"
\* (absent or null), "str" (a JSON string), "bool" (true or false, v 1 or 0),
\* "num" (a JSON number of v thousandths of a rupee), "nan" or "inf" (the
\* NaN and Infinity json.loads accepts)
Amount(k, v) == [k |-> k, v |-> v]

AmountData(k, v) == [kind |-> "json", amount |-> Amount(k, v)]
NoData == [kind |-> "none", amount |-> Amount("missing", 0)]

\* isinstance(amount, (int, float)): bool is a subclass of int
IsIntOrFloat(amount) == amount.k \in {"bool", "num", "nan", "inf"}

\* amount <= 0: True and False compare as 1 and 0, NaN compares False
NotPositive(amount) ==
    CASE amount.k \in {"bool", "num"} -> amount.v <= 0
      [] OTHER -> FALSE

\* int(float(amount) * 100) of a positive amount: truncation to whole paise
AmountInPaise(amount) ==
    IF amount.k = "bool" THEN 100 * amount.v ELSE amount.v \div 10

\* payments.py 14-19: get_razorpay_client raises ValueError without both keys
KeysConfigured(keys) == keys = "configured"

\* POST /payments/razorpay/create_order (payments.py 21-64).  keys is the
\* app's RAZORPAY_KEY_ID / RAZORPAY_KEY_SECRET configuration, gateway the
\* outcome of client.order.create ("ok" or "error") if it is called.  calls
\* counts the calls of client.order.create, paise is the amount sent with it.
CreateRazorpayOrder(tok, data, keys, gateway) ==
    LET auth == TokenRequired(tok)
        amount == data.amount
        answer(code, calls, paise) ==
            [op |-> "create_razorpay_order", code |-> code, tok |-> tok, data |-> data,
             keys |-> keys, gateway |-> IF calls = 0 THEN "" ELSE gateway,
             calls |-> calls, paise |-> paise]
    IN
    /\ last' =
          IF auth.code # 0 THEN answer(auth.code, 0, 0)
          ELSE IF data.kind = "none" THEN answer(400, 0, 0)
          ELSE IF amount.k = "missing" \/ ~IsIntOrFloat(amount) \/ NotPositive(amount)
          THEN answer(400, 0, 0)
          ELSE IF amount.k \in {"nan", "inf"} THEN answer(500, 0, 0)
          ELSE IF AmountInPaise(amount) < 100 THEN answer(400, 0, 0)
          ELSE IF ~KeysConfigured(keys) THEN answer(500, 0, 0)
          ELSE IF gateway = "error" THEN answer(500, 1, AmountInPaise(amount))
          ELSE answer(200, 1, AmountInPaise(amount))
    /\ UNCHANGED <<users, ops, orders, hs, clock, secret>>

----------------------------------------------------------------------------
(* signup, delete_user, update_user.  Each checks db.users and then writes it *)
(* in a later step; a request past its checks waits in ops for its write.     *)

\* the _id insert_one gives the user inserted by the k-th request of ops
NewIds == <<"u4", "u5", "u6", "u7">>

\* str.strip() and str.lower().strip() on the strings a request may carry
Strip(s) == IF s = " ravi " THEN "ravi" ELSE s
LowerStrip(s) == IF s = "Ravi@X.in" THEN "ravi@x.in" ELSE s

\* a request past its checks.  set holds the fields to write: "" and "keep"
\* leave a field alone
UserOp(op, by, target, set) ==
    [op |-> op, pc |-> "checked", by |-> by, target |-> target, set |-> set, code |-> 0]

\* the body of a signup request: password is "missing", "short" (under 6
\* characters) or "ok"
SignupData(username, email, password) ==
    [kind |-> "json", username |-> username, email |-> email, password |-> password]

\* auth.py 16-34: the response code of a signup rejected before insert_one, 0
\* when the user is inserted
SignupCheck(data) ==
    IF data.kind = "none" THEN 400
    ELSE IF data.username = "" \/ data.email = "" \/ data.password = "missing" THEN 400
    ELSE IF data.password = "short" THEN 400
    ELSE IF \E u \in DOMAIN users : users[u].email = data.email THEN 409
    ELSE IF \E u \in DOMAIN users : users[u].username = data.username THEN 409
    ELSE 0

\* POST /auth/signup up to and including the two find_one (auth.py 14-34)
SignupBegin(data) ==
    LET code == SignupCheck(data) IN
    /\ ops' = IF code # 0 THEN ops
              ELSE Append(ops, UserOp("signup", "", "",
                                      [username |-> data.username, email |-> data.email,
                                       isAdmin |-> "no"]))
    /\ last' = [op |-> "signup", code |-> code, tok |-> NoToken, step |-> "begin"]
    /\ UNCHANGED <<users, orders, hs, clock, secret>>

\* insert_one(user_doc) and the response (auth.py 36-74)
SignupInsert(k) ==
    /\ ops[k].op = "signup" /\ ops[k].pc = "checked"
    /\ users' = users @@ (NewIds[k] :> [username |-> ops[k].set.username,
                                         email |-> ops[k].set.email,
                                         isAdmin |-> FALSE])
    /\ ops' = [ops EXCEPT ![k] = [@ EXCEPT !.pc = "done", !.target = NewIds[k],
                                           !.code = 201]]
    /\ last' = [op |-> "signup", code |-> 201, tok |-> NoToken, step |-> "write"]
    /\ UNCHANGED <<orders, hs, clock, secret>>

\* admin.py 48-65: the response code of a delete_user rejected before
\* delete_one, 0 when delete_one runs.  user_id "bad" is a string ObjectId()
\* rejects.
DeleteUserCheck(tok, user_id) ==
    LET auth == AdminRequired(tok) IN
    IF auth.code # 0 THEN auth.code
    ELSE IF user_id = auth.id THEN 403
    ELSE IF user_id = "bad" THEN 400
    ELSE IF user_id \notin DOMAIN users THEN 404
    ELSE 0

\* DELETE /users/<user_id> up to and including find_one (admin.py 48-65)
DeleteUserBegin(tok, user_id) ==
    LET code == DeleteUserCheck(tok, user_id) IN
    /\ ops' = IF code # 0 THEN ops
              ELSE Append(ops, UserOp("delete_user", tok.user_id, user_id,
                                      [username |-> "", email |-> "", isAdmin |-> "keep"]))
    /\ last' = [op |-> "delete_user", code |-> code, tok |-> tok, step |-> "begin"]
    /\ UNCHANGED <<users, orders, hs, clock, secret>>

\* DeleteUserWrite deleting the user's orders with the user
DeleteUserWriteCascade(k) ==
    /\ ops[k].op = "delete_user" /\ ops[k].pc = "checked"
    /\ LET code == IF ops[k].target \in DOMAIN users THEN 200 ELSE 404 IN
       /\ users' = [u \in DOMAIN users \ {ops[k].target} |-> users[u]]
       /\ orders' = SelectSeq(orders, LAMBDA o : o.userId # ops[k].target)
       /\ ops' = [ops EXCEPT ![k] = [@ EXCEPT !.pc = "done", !.code = code]]
       /\ last' = [op |-> "delete_user", code |-> code, tok |-> TokenOf(ops[k].by),
                   step |-> "write"]
    /\ UNCHANGED <<hs, clock, secret>>

\* delete_one({'_id': ...}) and the response (admin.py 67-76)
DeleteUserWrite(k) ==
    /\ ops[k].op = "delete_user" /\ ops[k].pc = "checked"
    /\ LET code == IF ops[k].target \in DOMAIN users THEN 200 ELSE 404 IN
       /\ users' = [u \in DOMAIN users \ {ops[k].target} |-> users[u]]
       /\ ops' = [ops EXCEPT ![k] = [@ EXCEPT !.pc = "done", !.code = code]]
       /\ last' = [op |-> "delete_user", code |-> code, tok |-> TokenOf(ops[k].by),
                   step |-> "write"]
    /\ UNCHANGED <<orders, hs, clock, secret>>

\* the body of an update_user request: "" is an absent username or email key,
\* "ab" a username under 3 characters, "bad" a string that is no e-mail address;
\* isAdmin is "absent", "true", "false" or "other" (not a JSON boolean)
UpdateData(username, email, isAdmin) ==
    [kind |-> "json", username |-> username, email |-> email, isAdmin |-> isAdmin]

\* admin.py 104-130: update_fields
UpdateFields(data) ==
    [username |-> IF data.username = "ab" THEN "" ELSE Strip(data.username),
     email |-> IF data.email = "bad" THEN "" ELSE LowerStrip(data.email),
     isAdmin |-> CASE data.isAdmin = "true" -> "yes"
                   [] data.isAdmin = "false" -> "no"
                   [] OTHER -> "keep"]

\* admin.py 139-152: find_one(conflict_query) finds another user with the
\* username or the e-mail to be set
Conflict(user_id, set) ==
    \E u \in DOMAIN users \ {user_id} :
        \/ (set.username # "" /\ users[u].username = set.username)
        \/ (set.email # "" /\ users[u].email = set.email)

\* admin.py 86-155: the response code of an update_user rejected before
\* update_one, 0 when update_one runs
UpdateUserCheck(tok, user_id, data) ==
    LET auth == AdminRequired(tok)
        set == UpdateFields(data)
    IN
    IF auth.code # 0 THEN auth.code
    ELSE IF data.kind = "none" THEN 400
    ELSE IF user_id = "bad" THEN 400
    ELSE IF data.isAdmin = "false" /\ user_id = auth.id THEN 403
    ELSE IF data.username = "ab" \/ data.email = "bad" \/ data.isAdmin = "other" THEN 400
    ELSE IF set.username = "" /\ set.email = "" /\ set.isAdmin = "keep" THEN 400
    ELSE IF Conflict(user_id, set) THEN 409
    ELSE 0

\* PUT /users/<user_id> up to and including find_one (admin.py 86-155)
UpdateUserBegin(tok, user_id, data) ==
    LET code == UpdateUserCheck(tok, user_id, data) IN
    /\ ops' = IF code # 0 THEN ops
              ELSE Append(ops, UserOp("update_user", tok.user_id, user_id, UpdateFields(data)))
    /\ last' = [op |-> "update_user", code |-> code, tok |-> tok, step |-> "begin"]
    /\ UNCHANGED <<users, orders, hs, clock, secret>>

\* admin.py 160-163: the $set of update_user
UserSet(user, set) ==
    [username |-> IF set.username = "" THEN user.username ELSE set.username,
     email |-> IF set.email = "" THEN user.email ELSE set.email,
     isAdmin |-> CASE set.isAdmin = "yes" -> TRUE
                   [] set.isAdmin = "no" -> FALSE
                   [] OTHER -> user.isAdmin]

\* update_one({'_id': ...}, {'$set': update_fields}) and the response
\* (admin.py 159-173)
UpdateUserWrite(k) ==
    /\ ops[k].op = "update_user" /\ ops[k].pc = "checked"
    /\ LET code == IF ops[k].target \in DOMAIN users THEN 200 ELSE 404 IN
       /\ users' = [u \in DOMAIN users |->
                       IF u = ops[k].target THEN UserSet(users[u], ops[k].set) ELSE users[u]]
       /\ ops' = [ops EXCEPT ![k] = [@ EXCEPT !.pc = "done", !.code = code]]
       /\ last' = [op |-> "update_user", code |-> code, tok |-> TokenOf(ops[k].by),
                   step |-> "write"]
    /\ UNCHANGED <<orders, hs, clock, secret>>

----------------------------------------------------------------------------
(* The store the application is started on, and the requests it is sent *)

WebhookSecret == "whsec"

\* db.users as seeded: an admin, a customer; u3 is a user since deleted
SeededUsers ==
    ("u1" :> [username |-> "admin", email |-> "admin@x.in", isAdmin |-> TRUE])
    @@ ("u2" :> [username |-> "asha", email |-> "asha@x.in", isAdmin |-> FALSE])

\* An order of the gateway checkout path (orders.py 42-46, 109-111: disabled in
\* create_order, its documents remain in db.orders): it holds the gateway's order
\* id, which razorpay_webhook looks orders up by.
GatewayOrder(status) ==
    [userId |-> "u2",
     totalAmount |-> 39900,
     paymentMethod |-> "razorpay",
     paymentStatus |-> status,
     orderDate |-> 0,
     shippingAddress |-> "home",
     items |-> <<[productId |-> "p1", productName |-> "Tonic",
                  quantity |-> 2, price |-> 199500]>>,
     razorpay |-> [orderId |-> "order_A", paymentId |-> "", webhookVerifiedAt |-> NoTime],
     estimatedDeliveryDate |-> NoTime]

Tonic == Item("num", 199500, "num", 2, "p1", "Tonic")

Checkout(cart, method, address) ==
    [kind |-> "json", cart |-> cart, method |-> method, address |-> address]
ListCart(items) == [kind |-> "list", items |-> items]
HomeAddress == [kind |-> "dict", val |-> "home"]

Captured(ref, pay) == Body("json", "payment.captured", ref, pay, "captured")
Failed(ref, pay) == Body("json", "payment.failed", ref, pay, "failed")

StatusInputs == ALLOWED_ORDER_STATUSES \cup {"Cancelled", "SHIPPED", "refunded"}
StatusBody(s) == [kind |-> "str", status |-> s]

InitWith(stores, secrets, deliveries) ==
    /\ users = SeededUsers
    /\ orders \in stores
    /\ ops = <<>>
    /\ hs = [h \in 1..deliveries |-> IdleHandler]
    /\ clock = 0
    /\ secret \in secrets
    /\ last = [op |-> "start", code |-> 0]

----------------------------------------------------------------------------
(* Spec: checkout, the gateway's deliveries for order_A and the admin override *)

SpecCheckouts ==
    {Checkout(ListCart(<<Tonic>>), "cod", HomeAddress),
     Checkout(ListCart(<<Tonic>>), "razorpay", HomeAddress)}
SpecBodies == {Captured("order_A", "pay_1"), Failed("order_A", "pay_2")}
\* the admin's overrides, and a customer's, a malformed id's and an unknown status's
SpecOverrides ==
    {<<TokenOf("u1"), id, StatusBody(s)>> :
        id \in 1..MaxOrders, s \in {"pending", "shipped", "completed", "Cancelled"}}
    \cup {<<TokenOf("u2"), 1, StatusBody("completed")>>,
          <<TokenOf("u1"), 0, StatusBody("completed")>>,
          <<TokenOf("u1"), 1, StatusBody("refunded")>>}

Init == InitWith({<<>>, <<GatewayOrder("pending")>>}, {WebhookSecret}, MaxInFlight)

DoCreateOrder ==
    /\ Len(orders) < MaxOrders
    /\ \E tok \in {TokenOf("u2"), NoToken}, data \in SpecCheckouts : CreateOrder(tok, data)

DoWebhookReceive ==
    \E h \in Handlers, body \in SpecBodies, signed \in SpecBodies :
        WebhookReceive(h, body, HMAC(WebhookSecret, signed))

DoWebhookUpdate == \E h \in Handlers : WebhookUpdate(h)

DoUpdateOrderStatus ==
    \E req \in SpecOverrides : UpdateOrderStatus(req[1], req[2], req[3])

Next == DoCreateOrder \/ DoWebhookReceive \/ DoWebhookUpdate \/ DoUpdateOrderStatus

Spec == Init /\ [][Next]_vars

----------------------------------------------------------------------------
(* SpecFrame: every handler that reads or writes db.orders, the queries      *)
(* included, with the customer's checkouts, the gateway's deliveries for     *)
(* order_A and the admin's overrides of the first order                      *)

FrameOverrides == {<<TokenOf("u1"), 1, StatusBody(s)>> : s \in {"shipped", "Cancelled"}}

InitFrame == InitWith({<<>>, <<GatewayOrder("pending")>>}, {WebhookSecret}, MaxInFlight)

FrameCreateOrder ==
    /\ Len(orders) < MaxOrders
    /\ \E data \in SpecCheckouts : CreateOrder(TokenOf("u2"), data)

FrameWebhookReceive ==
    \E h \in Handlers, body \in SpecBodies : WebhookReceive(h, body, HMAC(WebhookSecret, body))

FrameWebhookUpdate == \E h \in Handlers : WebhookUpdate(h)

FrameUpdateOrderStatus ==
    \E req \in FrameOverrides : UpdateOrderStatus(req[1], req[2], req[3])

FrameGetMyOrders == \E tok \in {TokenOf("u1"), TokenOf("u2"), NoToken} : GetMyOrders(tok)

FrameGetOrderDetails ==
    \E tok \in {TokenOf("u1"), TokenOf("u2")}, id \in 0..(MaxOrders + 1) :
        GetOrderDetails(tok, id)

NextFrame ==
    \/ FrameCreateOrder
    \/ FrameWebhookReceive
    \/ FrameWebhookUpdate
    \/ FrameUpdateOrderStatus
    \/ FrameGetMyOrders
    \/ FrameGetOrderDetails

SpecFrame == InitFrame /\ [][NextFrame]_vars

----------------------------------------------------------------------------
(* SpecUsers: the handlers of db.users, on a store with one or two admins    *)
(* and an order of u2, with the requests of admins, of a customer and of     *)
(* users since deleted or demoted, and the owner's query of their orders     *)

\* db.users after u1 has made u2 an admin
SeededAdmins == [SeededUsers EXCEPT !["u2"].isAdmin = TRUE]

UserSignups ==
    {SignupData("ravi", "ravi@x.in", "ok"),
     SignupData("ravi", "r2@x.in", "ok"),
     SignupData("asha", "new@x.in", "ok"),
     SignupData("ravi", "ravi@x.in", "short")}

UserTokens == {TokenOf("u1"), TokenOf("u2"), AdminTokenOf("u2"), TokenOf("u3")}

UserUpdates ==
    {UpdateData("", "", "true"),
     UpdateData("", "", "false"),
     UpdateData(" ravi ", "", "absent"),
     UpdateData("", "Ravi@X.in", "absent"),
     UpdateData("ab", "", "absent")}

InitUsers ==
    /\ users \in {SeededUsers, SeededAdmins}
    /\ orders = <<GatewayOrder("pending")>>
    /\ ops = <<>>
    /\ hs = [h \in 1..MaxInFlight |-> IdleHandler]
    /\ clock = 0
    /\ secret = WebhookSecret
    /\ last = [op |-> "start", code |-> 0]

UsersSignupBegin == Len(ops) < MaxUserOps /\ \E data \in UserSignups : SignupBegin(data)

UsersSignupInsert == \E k \in DOMAIN ops : SignupInsert(k)

UsersDeleteBegin ==
    /\ Len(ops) < MaxUserOps
    /\ \E tok \in UserTokens, user_id \in {"u1", "u2", "bad"} : DeleteUserBegin(tok, user_id)

UsersDeleteWrite == \E k \in DOMAIN ops : DeleteUserWrite(k)

UsersUpdateBegin ==
    /\ Len(ops) < MaxUserOps
    /\ \E tok \in UserTokens, user_id \in {"u1", "u2"}, data \in UserUpdates :
          UpdateUserBegin(tok, user_id, data)

UsersUpdateWrite == \E k \in DOMAIN ops : UpdateUserWrite(k)

UsersGetMyOrders == \E tok \in UserTokens : GetMyOrders(tok)

NextUsers ==
    \/ UsersSignupBegin
    \/ UsersSignupInsert
    \/ UsersDeleteBegin
    \/ UsersDeleteWrite
    \/ UsersUpdateBegin
    \/ UsersUpdateWrite
    \/ UsersGetMyOrders

SpecUsers == InitUsers /\ [][NextUsers]_vars

----------------------------------------------------------------------------
(* SpecRetention: the handlers of db.orders together with the admin's        *)
(* handlers of db.users: the customer u2 checks out, the gateway delivers    *)
(* for order_A, the admin overrides the first order's status and deletes     *)
(* u2, and u2 queries their orders before and after                          *)

RetentionCreateOrder ==
    /\ Len(orders) < MaxOrders
    /\ CreateOrder(TokenOf("u2"), Checkout(ListCart(<<Tonic>>), "cod", HomeAddress))

RetentionWebhookReceive ==
    \E h \in Handlers, body \in SpecBodies : WebhookReceive(h, body, HMAC(WebhookSecret, body))

RetentionWebhookUpdate == \E h \in Handlers : WebhookUpdate(h)

RetentionUpdateOrderStatus == UpdateOrderStatus(TokenOf("u1"), 1, StatusBody("Cancelled"))

RetentionGetMyOrders == GetMyOrders(TokenOf("u2"))

RetentionGetOrderDetails == GetOrderDetails(TokenOf("u2"), 1)

RetentionDeleteBegin ==
    /\ Len(ops) < MaxUserOps
    /\ DeleteUserBegin(TokenOf("u1"), "u2")

RetentionDeleteWrite == \E k \in DOMAIN ops : DeleteUserWrite(k)

NextRetention ==
    \/ RetentionCreateOrder
    \/ RetentionWebhookReceive
    \/ RetentionWebhookUpdate
    \/ RetentionUpdateOrderStatus
    \/ RetentionGetMyOrders
    \/ RetentionGetOrderDetails
    \/ RetentionDeleteBegin
    \/ RetentionDeleteWrite

SpecRetention == InitFrame /\ [][NextRetention]_vars

----------------------------------------------------------------------------
(* SpecGateway: create_razorpay_order alone, with every kind of amount, with *)
(* and without the gateway keys, the gateway answering or failing            *)

GatewayAmounts ==
    {Amount("missing", 0), Amount("str", 0), Amount("bool", 0), Amount("bool", 1),
     Amount("nan", 0), Amount("inf", 0)}
    \cup {Amount("num", v) : v \in {-1000, 0, 5, 999, 1000, 1005, 39900}}

GatewayData == {NoData} \cup {AmountData(a.k, a.v) : a \in GatewayAmounts}

GatewayTokens == {TokenOf("u1"), TokenOf("u2"), TokenOf("u3"), NoToken}

InitGateway == InitWith({<<>>, <<GatewayOrder("pending")>>}, {WebhookSecret}, MaxInFlight)

GatewayCreateOrder ==
    \E tok \in GatewayTokens, data \in GatewayData,
       keys \in {"configured", "missing"}, gateway \in {"ok", "error"} :
        CreateRazorpayOrder(tok, data, keys, gateway)

NextGateway == GatewayCreateOrder

SpecGateway == InitGateway /\ [][NextGateway]_vars

----------------------------------------------------------------------------
(* SpecFresh: the application on an empty db.orders, which only its own      *)
(* handlers write: checkouts, gateway orders created for the client, the     *)
(* gateway's deliveries for them, the admin's override and the owner's       *)
(* query.  WebhookUpdate has no disjunct here: it starts from a request that *)
(* found its order, and C27 shows that no request of this run does.          *)

FreshAmounts == {Amount("num", 39900), Amount("num", 5)}

InitFresh == InitWith({<<>>}, {WebhookSecret}, MaxDeliveries)

FreshCreateOrder ==
    /\ Len(orders) < MaxOrders
    /\ \E data \in SpecCheckouts : CreateOrder(TokenOf("u2"), data)

FreshCreateRazorpayOrder ==
    \E a \in FreshAmounts, gateway \in {"ok", "error"} :
        CreateRazorpayOrder(TokenOf("u2"), AmountData(a.k, a.v), "configured", gateway)

FreshWebhookReceive ==
    \E h \in Handlers, body \in SpecBodies : WebhookReceive(h, body, HMAC(WebhookSecret, body))

FreshUpdateOrderStatus ==
    \E s \in {"pending", "shipped"} : UpdateOrderStatus(TokenOf("u1"), 1, StatusBody(s))

FreshGetMyOrders == GetMyOrders(TokenOf("u2"))

NextFresh ==
    \/ FreshCreateOrder
    \/ FreshCreateRazorpayOrder
    \/ FreshWebhookReceive
    \/ FreshUpdateOrderStatus
    \/ FreshGetMyOrders

SpecFresh == InitFresh /\ [][NextFresh]_vars

----------------------------------------------------------------------------
(* SpecIgnored: the webhook alone, on an empty store or on the gateway order *)
(* pending, processing or completed, with the events razorpay_webhook has no *)
(* branch for among the two it handles, under the gateway's signature or     *)
(* another                                                                   *)

IgnoredBodies ==
    {Body("json", "order.paid", "order_A", "pay_1", "captured"),
     Body("json", "refund.created", "order_A", "pay_1", ""),
     Body("json", "", "order_A", "pay_1", "captured"),
     Body("json", "payment.captured", "", "pay_1", "captured"),
     Body("json", "payment.captured", "order_A", "pay_1", "authorized"),
     Body("json", "payment.captured", "order_A", "pay_1", ""),
     Body("json", "payment.failed", "", "pay_2", "failed")}

IgnoredSignaturesFor(body) == {HMAC(WebhookSecret, body), HMAC("guess", body)}

InitIgnored ==
    InitWith({<<>>} \cup {<<GatewayOrder(s)>> : s \in {"pending", "processing", "completed"}},
             {WebhookSecret}, MaxDeliveries)

IgnoredReceive ==
    \E h \in Handlers, body \in IgnoredBodies \cup SpecBodies :
        \E sig \in IgnoredSignaturesFor(body) : WebhookReceive(h, body, sig)

IgnoredUpdate == \E h \in Handlers : WebhookUpdate(h)

NextIgnored == IgnoredReceive \/ IgnoredUpdate

SpecIgnored == InitIgnored /\ [][NextIgnored]_vars

----------------------------------------------------------------------------
(* SpecWebhook: the webhook alone, on a store that holds at most the gateway *)
(* order in any status an earlier delivery or override has left it in, with *)
(* every kind of body and signature header, the secret configured or not    *)

WebhookBodies ==
    {Captured("order_A", "pay_1"),
     Failed("order_A", "pay_2"),
     Captured("order_B", "pay_3"),
     Body("json", "payment.captured", "order_A", "pay_1", "authorized"),
     Body("json", "payment.captured", "", "pay_1", "captured"),
     Body("json", "order.paid", "order_A", "pay_1", "captured"),
     Body("malformed", "", "", "", "")}

\* the headers sent with a body: its digest, the digest of the body the gateway
\* signed (the body was changed on the way), a digest under another key, none
SignaturesFor(body) ==
    {HMAC(WebhookSecret, body),
     HMAC(WebhookSecret, Captured("order_A", "pay_1")),
     HMAC("guess", body),
     NoSignature, EmptySignature, NonAsciiSignature}

InitWebhook ==
    InitWith({<<>>} \cup {<<GatewayOrder(s)>> : s \in ALLOWED_ORDER_STATUSES},
             {WebhookSecret, ""}, MaxDeliveries)

GateReceive ==
    \E h \in Handlers, body \in WebhookBodies :
        \E sig \in SignaturesFor(body) : WebhookReceive(h, body, sig)

GateUpdate == \E h \in Handlers : WebhookUpdate(h)

NextWebhook == GateReceive \/ GateUpdate

SpecWebhook == InitWebhook /\ [][NextWebhook]_vars

----------------------------------------------------------------------------
(* SpecFaults: the webhook alone, with a secret, on a store that can fail:   *)
(* events for the gateway order and for an order the store does not hold,    *)
(* under the gateway's signature or another                                  *)

FaultBodies ==
    {Captured("order_A", "pay_1"),
     Failed("order_A", "pay_2"),
     Captured("order_B", "pay_3"),
     Failed("order_B", "pay_4"),
     Body("json", "order.paid", "order_A", "pay_1", "captured"),
     Body("malformed", "", "", "", "")}

FaultSignaturesFor(body) == {HMAC(WebhookSecret, body), HMAC("guess", body)}

InitFaults ==
    InitWith({<<>>, <<GatewayOrder("pending")>>, <<GatewayOrder("completed")>>},
             {WebhookSecret}, MaxDeliveries)

FaultReceive ==
    \E h \in Handlers, body \in FaultBodies :
        \E sig \in FaultSignaturesFor(body) : WebhookReceive(h, body, sig)

FaultUpdate == \E h \in Handlers : WebhookUpdate(h)

FaultFindFails ==
    \E h \in Handlers, body \in FaultBodies :
        \E sig \in FaultSignaturesFor(body) : WebhookFindFails(h, body, sig)

FaultUpdateFails == \E h \in Handlers : WebhookUpdateFails(h)

NextFaults == FaultReceive \/ FaultUpdate \/ FaultFindFails \/ FaultUpdateFails

SpecFaults == InitFaults /\ [][NextFaults]_vars

----------------------------------------------------------------------------
(* SpecCheckout: one create_order request on an empty store, with carts of   *)
(* every shape                                                              *)

Prices == {2, 4, 199500}
Quantities == {1, 2}

GoodItems == {Item("num", p, "num", q, "p1", "Tonic") : p \in Prices, q \in Quantities}
BadItems ==
    {Item("missing", 0, "num", 1, "p1", "Tonic"),
     Item("bad", 0, "num", 1, "p1", "Tonic"),
     Item("num", 0, "num", 1, "p1", "Tonic"),
     Item("num", -1250, "num", 1, "p1", "Tonic"),
     Item("num", 4, "num", 0, "p1", "Tonic"),
     Item("num", 4, "bad", 0, "p1", "Tonic"),
     Item("num", 4, "num", 1, "", "Tonic"),
     Item("num", 4, "num", 1, "p1", "")}

RECURSIVE SeqsUpTo(_, _)
SeqsUpTo(S, n) ==
    IF n = 0 THEN {<<>>}
    ELSE LET shorter == SeqsUpTo(S, n - 1) IN
         shorter \cup {Append(c, x) : c \in shorter, x \in S}

Carts == {ListCart(c) : c \in SeqsUpTo(GoodItems \cup BadItems, MaxCart)}

\* a well-formed request whose body also names a user: create_order reads the
\* keys cart, paymentMethod and address only (orders.py 28-30)
OnBehalfOf(u) == Checkout(ListCart(<<Tonic>>), "cod", HomeAddress) @@ [userId |-> u]

\* well-formed requests with every cart, and one request for each other way
\* a request can be malformed
CheckoutRequests ==
    {<<TokenOf("u2"), Checkout(c, "cod", HomeAddress)>> : c \in Carts}
    \cup {<<tok, Checkout(ListCart(<<Tonic>>), "cod", HomeAddress)>> : tok \in Tokens}
    \cup {<<TokenOf("u2"), Checkout(c, "cod", HomeAddress)>> :
            c \in {[kind |-> "missing", items |-> <<>>], [kind |-> "other", items |-> <<>>]}}
    \cup {<<TokenOf("u2"), Checkout(ListCart(<<Tonic>>), m, HomeAddress)>> :
            m \in {"", "razorpay"}}
    \cup {<<TokenOf("u2"), Checkout(ListCart(<<Tonic>>), "cod", a)>> :
            a \in {[kind |-> "missing", val |-> ""], [kind |-> "str", val |-> "home"]}}
    \cup {<<TokenOf("u2"), OnBehalfOf("u1")>>}
    \cup {<<TokenOf("u2"), [kind |-> "none", cart |-> ListCart(<<>>), method |-> "",
                           address |-> [kind |-> "missing", val |-> ""]]>>}

InitCheckout == InitWith({<<>>}, {WebhookSecret}, MaxInFlight)

NextCheckout ==
    /\ orders = <<>>
    /\ last.op = "start"
    /\ \E req \in CheckoutRequests : CreateOrder(req[1], req[2])

SpecCheckout == InitCheckout /\ [][NextCheckout]_vars

----------------------------------------------------------------------------
(* Properties *)

\* the terminal values of paymentStatus in the specification's state machine
TerminalStatuses == {"completed", "failed", "cancelled"}

Status(i) == orders[i].paymentStatus

\* C1 (as claimed): once an order's paymentStatus is completed, failed or
\* cancelled, no signature-verified webhook delivery received after that changes
\* it: a delivery that found the order in a terminal status writes no other
\* paymentStatus.
C1_NoDoubleTransition ==
    [][\A h \in Handlers :
          (/\ hs[h].pc = "found" /\ hs'[h].pc = "done"
           /\ hs[h].sig = HMAC(secret, hs[h].body)
           /\ hs[h].seen \in TerminalStatuses)
          => orders'[hs[h].order].paymentStatus = Status(hs[h].order)]_vars

\* C2 (as claimed): of a payment.captured and a payment.failed delivery for the
\* same order, non-terminal when the first of them looked it up, exactly one
\* writes paymentStatus, and the order ends completed or failed.
C2_TerminalRaceSafety ==
    \A g, h \in Handlers :
        (/\ hs[g].pc = "done" /\ hs[h].pc = "done"
         /\ hs[g].body.event = "payment.captured" /\ hs[h].body.event = "payment.failed"
         /\ hs[g].order # 0 /\ hs[g].order = hs[h].order
         /\ (hs[g].seen \notin TerminalStatuses \/ hs[h].seen \notin TerminalStatuses))
        => /\ hs[g].writes + hs[h].writes = 1
           /\ Status(hs[g].order) \in {"completed", "failed"}

\* C3 (as claimed): among the webhook deliveries for one order at most one
\* performs a modifying write (modified_count > 0).
C3_AtMostOneApplied ==
    \A i \in 1..Len(orders) :
        Cardinality({h \in Handlers : hs[h].order = i /\ hs[h].applied}) <= 1

\* The deliveries so far are all of one verified payment.captured event for the
\* gateway order, the only order in the store.
TheEvent == Captured("order_A", "pay_1")
OnlyRedeliveries ==
    /\ Len(orders) = 1
    /\ secret # ""
    /\ \A h \in Handlers :
          hs[h].pc # "idle" => hs[h].body = TheEvent /\ hs[h].sig = HMAC(secret, TheEvent)
AllAnswered ==
    /\ \A h \in Handlers : hs[h].pc \in {"idle", "done"}
    /\ \E h \in Handlers : hs[h].pc = "done"

\* C4 (as claimed): after any number of deliveries of the same verified
\* payment.captured event for an order, the order's paymentStatus is completed.
C4_AlwaysCompleted ==
    (OnlyRedeliveries /\ AllAnswered) => Status(1) = "completed"

\* C4 (amended): after any number of deliveries of the same verified
\* payment.captured event (entity status captured) for an order, with no other
\* operation in between, the order is completed, unless a delivery found it
\* failed, and then it is still failed; and once one delivery has been answered
\* no step of a delivery changes paymentStatus.
C4_Idempotent ==
    /\ [](OnlyRedeliveries /\ AllAnswered =>
            \A h \in Handlers : hs[h].pc = "done" =>
                Status(1) = IF hs[h].seen = "failed" THEN "failed" ELSE "completed")
    /\ [][(OnlyRedeliveries /\ OnlyRedeliveries' /\ \E h \in Handlers : hs[h].pc = "done")
            => orders'[1].paymentStatus = Status(1)]_vars

\* C4 witness: the event was delivered twice; the first delivery found the order
\* pending and wrote, the second found it completed and did not.
C4_Witness ==
    /\ OnlyRedeliveries /\ AllAnswered
    /\ \E g, h \in Handlers :
          /\ g # h /\ hs[g].pc = "done" /\ hs[h].pc = "done"
          /\ hs[g].seen = "pending" /\ hs[g].writes = 1
          /\ hs[h].seen = "completed" /\ hs[h].writes = 0
    /\ Status(1) = "completed"

\* the header is not the HMAC-SHA256 of the body under the configured secret
BadSignature(h) == hs[h].pc # "idle" /\ hs[h].sig # HMAC(secret, hs[h].body)

\* C5: a webhook request whose signature header is not the HMAC of its raw body
\* under the configured secret is answered with an error before any order is
\* looked up or updated, and the step that handles it changes no order.
C5_SignatureGate ==
    /\ [](\A h \in Handlers : BadSignature(h) =>
            /\ hs[h].pc = "done" /\ hs[h].code \in {400, 500}
            /\ hs[h].lookups = 0 /\ hs[h].writes = 0)
    /\ [][\A h \in Handlers : (hs[h].pc = "idle" /\ BadSignature(h)') => orders' = orders]_vars

\* C5 witness: a payment.failed body sent under the header the gateway made for
\* the payment.captured body was rejected with 400; the pending order it names
\* is as it was.
C5_Witness ==
    /\ secret = WebhookSecret
    /\ orders = <<GatewayOrder("pending")>>
    /\ \E h \in Handlers :
          /\ hs[h].pc = "done" /\ hs[h].code = 400
          /\ hs[h].body = Failed("order_A", "pay_2")
          /\ hs[h].sig = HMAC(secret, Captured("order_A", "pay_1"))

\* C6 (as claimed): with no webhook secret configured, or no signature header,
\* the request is rejected with a 400/401 response and no order is read or written.
C6_FailClosed4xx ==
    \A h \in Handlers :
        (hs[h].pc # "idle" /\ (secret = "" \/ hs[h].sig.kind = "missing"))
        => /\ hs[h].pc = "done" /\ hs[h].code \in {400, 401}
           /\ hs[h].lookups = 0 /\ hs[h].writes = 0

\* C6 (amended): with no webhook secret configured the request is rejected with
\* 500, and with a secret but no signature header with 400; in both cases no
\* order is read or written.
C6_FailClosed ==
    \A h \in Handlers :
        (hs[h].pc # "idle" /\ (secret = "" \/ hs[h].sig.kind = "missing"))
        => /\ hs[h].pc = "done"
           /\ hs[h].code = IF secret = "" THEN 500 ELSE 400
           /\ hs[h].lookups = 0 /\ hs[h].writes = 0

\* C6 witness: no secret is configured, the store holds the pending gateway
\* order, and a correctly formed payment.captured delivery was answered 500.
C6_Witness ==
    /\ secret = ""
    /\ orders = <<GatewayOrder("pending")>>
    /\ \E h \in Handlers :
          /\ hs[h].pc = "done" /\ hs[h].code = 500
          /\ hs[h].body = TheEvent /\ hs[h].sig = HMAC(WebhookSecret, TheEvent)

\* C7 (as claimed): update_order_status never changes the paymentStatus of an
\* order that is completed, failed or cancelled.
C7_AdminRespectsTerminal ==
    [][\A i \in 1..Len(orders) :
          (Status(i) \in TerminalStatuses /\ last'.op = "update_order_status")
              => orders'[i].paymentStatus = Status(i)]_vars

\* pending -> processing -> completed | failed, cancelled from a non-terminal
\* state; a delivery for a pending order may complete or fail it directly
StateMachine ==
    {<<"pending", "processing">>}
    \cup ({"pending", "processing"} \X {"completed", "failed", "cancelled"})

\* C8 (as claimed): every change of an order's paymentStatus follows the state
\* machine, and only the webhook handler sets it to completed or failed.
C8_StateMachineOnly ==
    [][\A i \in 1..Len(orders) :
          orders'[i].paymentStatus # Status(i)
              => /\ <<Status(i), orders'[i].paymentStatus>> \in StateMachine
                 /\ orders'[i].paymentStatus \in {"completed", "failed"}
                        => last'.op = "webhook"]_vars

C10_PositiveTotal == \A i \in 1..Len(orders) : orders[i].totalAmount > 0

----------------------------------------------------------------------------
(* Properties of create_order's pricing and writes *)

\* the latest step was a create_order request
Created == last.op = "create_order"

\* the sum over the items of a cart of price x quantity, in mills
RECURSIVE CartSum(_)
CartSum(items) ==
    IF items = <<>> THEN 0
    ELSE Head(items).pv * Head(items).qv + CartSum(Tail(items))

\* an item with a positive price, a positive quantity, an id and a name
ValidItem(it) ==
    /\ it.pk = "num" /\ it.qk = "num"
    /\ it.pv > 0 /\ it.qv > 0
    /\ it.id # "" /\ it.name # ""

\* everything of a request but its cart is in order
ValidEnvelope(tok, data) ==
    /\ tok.kind = "jwt" /\ tok.user_id \in DOMAIN users
    /\ data.kind = "json" /\ data.method = "cod" /\ data.address.kind = "dict"
    /\ data.cart.kind = "list"

\* a non-empty cart of valid items
ValidCart(cart) ==
    cart # <<>> /\ \A k \in 1..Len(cart) : ValidItem(cart[k])

\* paise is mills rounded to 2 decimals (either way at half a paisa)
RoundedTo2(paise, mills) == 10 * paise - mills \in -5..5

\* C11: for every valid cart the persisted totalAmount is the sum over the items
\* of price x quantity rounded to 2 decimals, and a cart of numeric items whose
\* sum is <= 0 is rejected with 400 and nothing is persisted.
C11_TotalInvariant ==
    Created /\ ValidEnvelope(last.tok, last.data) =>
        LET cart == last.data.cart.items IN
        /\ ValidCart(cart) =>
              /\ last.code = 201
              /\ Len(orders) = 1
              /\ RoundedTo2(orders[1].totalAmount, CartSum(cart))
        /\ ((\A k \in 1..Len(cart) : cart[k].pk = "num" /\ cart[k].qk = "num")
             /\ CartSum(cart) <= 0)
              => last.code = 400 /\ orders = <<>>

\* C11 witness: a cart of two items, 199.50 x 2 and 0.004 x 2, was persisted
\* with totalAmount 399.01.
C11_Witness ==
    /\ Created /\ last.code = 201
    /\ last.data.cart.items = <<Tonic, Item("num", 4, "num", 2, "p1", "Tonic")>>
    /\ orders[1].totalAmount = 39901

\* a request create_order must reject as invalid
ValidationFailure(data) ==
    \/ data.kind = "none"
    \/ data.cart.kind # "list"
    \/ data.method # "cod"
    \/ data.address.kind # "dict"
    \/ ~ValidCart(data.cart.items)
    \/ CartSum(data.cart.items) <= 0

\* C12: a create_order request answered 201 inserts exactly one order and
\* leaves the others as they were; a request that fails validation (no data, an
\* empty or non-list cart, a payment method other than cod, a non-dict address,
\* an invalid item anywhere in the cart, a total <= 0) is answered 400 and
\* inserts nothing, as does every other request not answered 201.
C12_OneInsertOrNone ==
    [][Created' =>
          /\ IF last'.code = 201
             THEN /\ Len(orders') = Len(orders) + 1
                  /\ SubSeq(orders', 1, Len(orders)) = orders
             ELSE orders' = orders
          /\ (TokenRequired(last'.tok).code = 0 /\ ValidationFailure(last'.data))
                => last'.code = 400]_vars

\* C12 witness: a cart with a valid item followed by one without a price was
\* answered 400 and the store is empty.
C12_Witness ==
    /\ Created /\ last.code = 400
    /\ last.data.cart.items = <<Tonic, Item("missing", 0, "num", 1, "p1", "Tonic")>>
    /\ orders = <<>>

----------------------------------------------------------------------------
(* Properties of the webhook's responses and of what it writes *)

\* the request in slot h has been received under the gateway's signature
Verified(h) == hs[h].pc # "idle" /\ secret # "" /\ hs[h].sig = HMAC(secret, hs[h].body)

\* processing of the request in slot h raised: its body does not parse, or the
\* store failed
Raised(h) == hs[h].status = "error processing payload"

\* C13 (as claimed): every webhook request with a valid signature is answered
\* 200 with body status "ok", and a request is answered with another code only
\* when signature verification fails.
C13_AlwaysOk ==
    \A h \in Handlers :
        /\ (Verified(h) /\ hs[h].pc = "done") => hs[h].code = 200 /\ hs[h].status = "ok"
        /\ (hs[h].pc = "done" /\ hs[h].code # 200) => ~Verified(h)

\* C13 (amended): every webhook request with a valid signature is answered 200,
\* with body status "ok", or "error processing payload" when the body does not
\* parse or the store failed during processing; a request is answered with
\* another code only when signature verification fails.
C13_Always200 ==
    \A h \in Handlers :
        /\ (Verified(h) /\ hs[h].pc = "done") =>
              /\ hs[h].code = 200
              /\ hs[h].status \in {"ok", "error processing payload"}
              /\ (hs[h].body.kind = "malformed") => Raised(h)
              /\ (hs[h].status = "ok" /\ hs[h].order # 0 /\ hs[h].seen \notin WebhookFinalStatuses)
                    => hs[h].writes = 1
        /\ (hs[h].pc = "done" /\ hs[h].code # 200) => ~Verified(h)

\* C13 witness: a verified payment.captured delivery for the pending gateway
\* order lost the store at update_one; it was answered 200 with "error
\* processing payload" and the order is still pending.
C13_Witness ==
    \E h \in Handlers :
        /\ Verified(h) /\ hs[h].pc = "done" /\ hs[h].code = 200
        /\ hs[h].body = Captured("order_A", "pay_1")
        /\ Raised(h) /\ hs[h].seen = "pending" /\ hs[h].writes = 0
        /\ Status(1) = "pending"

\* the verified event in slot h asked for a transition of an order that still
\* awaits it, and the store failed before the transition was written
LostEvent(h) ==
    /\ Verified(h) /\ hs[h].pc = "done"
    /\ hs[h].body.kind = "json" /\ EventTarget(hs[h].body) # ""
    /\ Raised(h) /\ hs[h].writes = 0
    /\ \E i \in 1..Len(orders) :
          /\ orders[i].razorpay.orderId = hs[h].body.order_id
          /\ Status(i) \notin TerminalStatuses
          /\ Status(i) # EventTarget(hs[h].body)

\* C14 (as claimed): a verified event whose transition was lost to a store error
\* is not acknowledged with 200.
C14_NoAckOfLostEvent == \A h \in Handlers : LostEvent(h) => hs[h].code # 200

\* no order holds the gateway order id ref
NoOrderFor(ref) == \A i \in 1..Len(orders) : orders[i].razorpay.orderId # ref

\* the orders that hold the gateway order id ref and are not in a terminal status
Awaiting(ref) ==
    {i \in 1..Len(orders) :
        orders[i].razorpay.orderId = ref /\ Status(i) \notin TerminalStatuses}

\* this step receives the request of slot h; this step is its update_one
Receives(h) == hs[h].pc = "idle" /\ hs'[h].pc # "idle"
Updates(h) == hs[h].pc = "found" /\ hs'[h].pc = "done"

\* the request in slot h is a payment.captured or payment.failed event
PaymentEvent(h) ==
    hs[h].body.kind = "json" /\ hs[h].body.event \in {"payment.captured", "payment.failed"}

\* C15: a verified payment.captured or payment.failed event whose order_id
\* matches no order in the store is answered 200 without a write, and the step
\* that handles it changes no order.
C15_OrphanAccepted ==
    /\ [](\A h \in Handlers :
            (Verified(h) /\ PaymentEvent(h) /\ NoOrderFor(hs[h].body.order_id))
            => hs[h].pc = "done" /\ hs[h].code = 200 /\ hs[h].writes = 0)
    /\ [][\A h \in Handlers :
            (Receives(h) /\ Verified(h)' /\ PaymentEvent(h)'
             /\ NoOrderFor(hs'[h].body.order_id))
            => orders' = orders]_vars

\* C15 witness: a verified payment.failed event for order_B was answered 200
\* with "ok" on a store that holds only the pending order of order_A, which is
\* as it was.
C15_Witness ==
    /\ orders = <<GatewayOrder("pending")>>
    /\ \E h \in Handlers :
          /\ Verified(h) /\ hs[h].pc = "done" /\ hs[h].code = 200 /\ hs[h].status = "ok"
          /\ hs[h].body = Failed("order_B", "pay_4")

\* the step is the update_one of an event of the given type for slot h, and
\* leaves the order with the status, the event's payment id and the time of the
\* write
Records(h, status) ==
    LET doc == orders'[hs[h].order] IN
    /\ doc.paymentStatus = status
    /\ doc.razorpay.paymentId = hs[h].body.id
    /\ doc.razorpay.webhookVerifiedAt = clock'
    /\ doc.razorpay.webhookVerifiedAt # NoTime

\* C16 (as claimed): a verified payment.captured event whose order_id matches
\* an order not in {completed, failed, cancelled} goes on to update that order,
\* whatever the entity's status field, and the update sets completed, the
\* event's payment id and the reconciliation time.
C16_CapturedAnyStatus ==
    [][\A h \in Handlers :
          /\ (Receives(h) /\ Verified(h)' /\ hs'[h].body.event = "payment.captured"
               /\ Awaiting(hs'[h].body.order_id) # {})
              => hs'[h].pc = "found" /\ hs'[h].order \in Awaiting(hs'[h].body.order_id)
          /\ (Updates(h) /\ hs[h].body.event = "payment.captured")
              => Records(h, "completed")]_vars

\* C16 (amended): a verified payment.captured event whose entity status is
\* captured and whose order_id matches an order not in {completed, failed,
\* cancelled} goes on to update that order, and the update sets completed, the
\* event's payment id and the reconciliation time.
C16_CapturedCompletes ==
    [][\A h \in Handlers :
          /\ (Receives(h) /\ Verified(h)' /\ hs'[h].body.event = "payment.captured"
               /\ hs'[h].body.status = "captured"
               /\ Awaiting(hs'[h].body.order_id) # {})
              => hs'[h].pc = "found" /\ hs'[h].order \in Awaiting(hs'[h].body.order_id)
          /\ (Updates(h) /\ hs[h].body.event = "payment.captured")
              => Records(h, "completed")]_vars

\* C16 witness: a payment.captured delivery found the gateway order in
\* processing and left it completed with payment id pay_1 and a timestamp.
C16_Witness ==
    \E h \in Handlers :
        /\ Verified(h) /\ hs[h].pc = "done" /\ hs[h].body = Captured("order_A", "pay_1")
        /\ hs[h].seen = "processing" /\ hs[h].writes = 1
        /\ Status(1) = "completed"
        /\ orders[1].razorpay.paymentId = "pay_1"
        /\ orders[1].razorpay.webhookVerifiedAt = clock

\* C17: a verified payment.failed event whose order_id matches an order not in
\* {completed, failed, cancelled} goes on to update that order, and the update
\* sets failed and the event's payment id (and the reconciliation time).
C17_FailedFails ==
    [][\A h \in Handlers :
          /\ (Receives(h) /\ Verified(h)' /\ hs'[h].body.event = "payment.failed"
               /\ Awaiting(hs'[h].body.order_id) # {})
              => hs'[h].pc = "found" /\ hs'[h].order \in Awaiting(hs'[h].body.order_id)
          /\ (Updates(h) /\ hs[h].body.event = "payment.failed")
              => Records(h, "failed")]_vars

\* C17 witness: a payment.failed delivery found the gateway order shipped and
\* left it failed with payment id pay_2.
C17_Witness ==
    \E h \in Handlers :
        /\ Verified(h) /\ hs[h].pc = "done" /\ hs[h].body = Failed("order_A", "pay_2")
        /\ hs[h].seen = "shipped" /\ hs[h].writes = 1
        /\ Status(1) = "failed"
        /\ orders[1].razorpay.paymentId = "pay_2"

\* C18: a verified payment.failed event received for an order that is
\* completed is answered 200 in that step, which leaves every order (status,
\* payment id and reconciliation time) as it was, and the request never writes.
C18_FailedAfterCompleted ==
    /\ [][\A h \in Handlers :
            (Receives(h) /\ Verified(h)' /\ hs'[h].body.event = "payment.failed"
             /\ \E i \in 1..Len(orders) :
                    orders[i].razorpay.orderId = hs'[h].body.order_id
                    /\ Status(i) = "completed")
            => hs'[h].pc = "done" /\ hs'[h].code = 200 /\ orders' = orders]_vars
    /\ [](\A h \in Handlers :
            (hs[h].body.event = "payment.failed" /\ hs[h].seen = "completed")
            => hs[h].pc = "done" /\ hs[h].writes = 0)

\* C18 witness: payment.captured completed the gateway order with pay_1; the
\* payment.failed delivery that followed found it completed and wrote nothing;
\* the order is completed and holds pay_1.
C18_Witness ==
    \E g, h \in Handlers :
        /\ hs[g].pc = "done" /\ hs[g].body = Captured("order_A", "pay_1") /\ hs[g].writes = 1
        /\ Verified(h) /\ hs[h].pc = "done" /\ hs[h].body = Failed("order_A", "pay_2")
        /\ hs[h].seen = "completed" /\ hs[h].writes = 0
        /\ Status(1) = "completed"
        /\ orders[1].razorpay.paymentId = "pay_1"
        /\ orders[1].razorpay.webhookVerifiedAt # NoTime

\* C19 (as claimed): once razorpay.paymentId of an order holds a value no step
\* replaces it with another.
C19_PaymentIdWrittenOnce ==
    [][\A i \in 1..Len(orders) :
          orders[i].razorpay.paymentId # ""
              => orders'[i].razorpay.paymentId = orders[i].razorpay.paymentId]_vars

\* the fields of an order that are fixed when it is created
Fixed(order) ==
    <<order.totalAmount, order.items, order.userId, order.paymentMethod,
      order.shippingAddress, order.orderDate>>

\* C20: no step changes the totalAmount, items, userId, paymentMethod,
\* shippingAddress or orderDate of an order in the store; a webhook step changes
\* at most paymentStatus, razorpay.paymentId and razorpay.webhookVerifiedAt, an
\* update_order_status step at most paymentStatus, and a query nothing.
C20_FrameOfWrites ==
    [][\A i \in 1..Len(orders) :
          /\ Len(orders') >= Len(orders)
          /\ Fixed(orders'[i]) = Fixed(orders[i])
          /\ orders'[i].razorpay.orderId = orders[i].razorpay.orderId
          /\ orders'[i].estimatedDeliveryDate = orders[i].estimatedDeliveryDate
          /\ last'.op = "update_order_status" => orders'[i].razorpay = orders[i].razorpay
          /\ last'.op \in {"get_my_orders", "get_order_details", "create_order"}
                => orders'[i] = orders[i]]_vars

\* C20 witness: the gateway order has been completed by the webhook and then
\* set to shipped by the admin; it holds the total, items, owner, method,
\* address and date it was created with.
C20_Witness ==
    /\ last = [op |-> "update_order_status", code |-> 200]
    /\ Len(orders) >= 1
    /\ Status(1) = "shipped"
    /\ orders[1].razorpay.paymentId = "pay_1"
    /\ Fixed(orders[1]) = Fixed(GatewayOrder("pending"))

----------------------------------------------------------------------------
(* Properties of the order create_order builds *)

\* the order the latest create_order request inserted
NewOrder == orders[Len(orders)]
Inserted == Created /\ last.code = 201

C22_GatewayAccepted ==
    (/\ Created
     /\ TokenRequired(last.tok).code = 0
     /\ last.data.kind = "json" /\ last.data.method = "razorpay"
     /\ last.data.address.kind = "dict" /\ last.data.cart.kind = "list"
     /\ ValidCart(last.data.cart.items))
    => /\ last.code = 201
       /\ Len(orders) = 1
       /\ NewOrder.paymentStatus = "completed"

\* C24: every order create_order inserts has the userId of the user its token
\* authenticates, a user of db.users, whatever the request body says; a request
\* with no token, an invalid token or the token of a user not in db.users is
\* answered 401 and inserts nothing.
C24_OwnerFromToken ==
    [][Created' =>
          /\ last'.code = 201 =>
                /\ last'.tok.kind = "jwt"
                /\ last'.tok.user_id \in DOMAIN users
                /\ orders'[Len(orders')].userId = last'.tok.user_id
          /\ (last'.tok.kind # "jwt" \/ last'.tok.user_id \notin DOMAIN users) =>
                last'.code = 401 /\ orders' = orders]_vars

\* C24 witness: u2's request whose body names u1 inserted an order owned by u2.
C24_Witness ==
    /\ Inserted
    /\ last.tok = TokenOf("u2") /\ last.data = OnBehalfOf("u1")
    /\ NewOrder.userId = "u2"

----------------------------------------------------------------------------
(* Properties of the order queries *)

\* the answer get_order_details gives for an order the requester may not see
NotFound ==
    [code |-> 404, message |-> "Order not found or access denied", body |-> <<>>]

\* the latest response, as the client sees it
Answer == [code |-> last.code, message |-> last.message, body |-> last.body]

\* C23: get_order_details returns an order only to the user whose id is its
\* userId; for an order of another user the answer is the one given for an id
\* the store does not hold (404, same message, no document); get_my_orders
\* returns the requester's orders and no others.
C23_OwnerScopedQueries ==
    /\ last.op = "get_order_details" =>
          /\ last.code = 200 =>
                /\ TokenRequired(last.tok).code = 0
                /\ last.body = <<Shown(last.id)>>
                /\ orders[last.id].userId = last.tok.user_id
          /\ (/\ TokenRequired(last.tok).code = 0
              /\ last.id # 0
              /\ (last.id \notin 1..Len(orders)
                  \/ orders[last.id].userId # last.tok.user_id))
             => Answer = NotFound
    /\ (last.op = "get_my_orders" /\ last.code = 200) =>
          /\ TokenRequired(last.tok).code = 0
          /\ {last.body[k].id : k \in DOMAIN last.body}
                = {i \in 1..Len(orders) : orders[i].userId = last.tok.user_id}
          /\ \A k \in DOMAIN last.body : last.body[k] = Shown(last.body[k].id)

\* C23 witness: the admin u1 asked for order 1, which is u2's, and got the
\* answer of an order that does not exist.
C23_Witness ==
    /\ last.op = "get_order_details"
    /\ last.tok = TokenOf("u1") /\ last.id = 1
    /\ Len(orders) >= 1 /\ orders[1].userId = "u2"
    /\ Answer = NotFound

----------------------------------------------------------------------------
(* Properties of db.orders and db.users under the admin's user handlers *)

\* C25: no step of create_order, the webhook, the order queries,
\* update_order_status or delete_user removes an order from the store: after
\* every step each order that was in the store is still there, under the same
\* _id and with the same owner, items and total, also when the step deletes
\* the user who owns it.
C25_OrdersNeverDeleted ==
    [][/\ Len(orders') >= Len(orders)
       /\ \A i \in 1..Len(orders) : Fixed(orders'[i]) = Fixed(orders[i])]_vars

\* C25 witness: the admin has deleted u2 after u2 checked out; u2's
\* cash-on-delivery order is still in the store.
C25_Witness ==
    /\ last.op = "delete_user" /\ last.code = 200 /\ last.step = "write"
    /\ "u2" \notin DOMAIN users
    /\ \E i \in 1..Len(orders) :
          orders[i].userId = "u2" /\ orders[i].paymentMethod = "cod"

\* C28: db.users always holds at least one admin: no sequence or interleaving
\* of delete_user and update_user requests removes or demotes the last one.
C28_AdminRemains == \E u \in DOMAIN users : users[u].isAdmin

\* C29: no two documents of db.users hold the same username or the same
\* email, whatever the interleaving of signup and update_user requests.
C29_UniqueUsers ==
    \A u, v \in DOMAIN users :
        u # v => /\ users[u].username # users[v].username
                 /\ users[u].email # users[v].email

\* the step is a request through token_required: get_my_orders, or the start
\* of delete_user or update_user
Guarded(l) ==
    \/ l.op = "get_my_orders"
    \/ l.op \in {"delete_user", "update_user"} /\ l.step = "begin"

\* the step is a request through admin_required
AdminGuarded(l) == l.op \in {"delete_user", "update_user"} /\ l.step = "begin"

\* C30: a request is authorized from db.users as it is when the request
\* arrives, whatever the token claims: with the token of a user who is not in
\* db.users it is answered 401, and an admin request with the token of a user
\* whose isAdmin is false in db.users is answered 403, also when the token
\* says isAdmin; neither changes db.users or db.orders nor reaches its write.
C30_StoreDecides ==
    [][Guarded(last') /\ last'.tok.kind = "jwt" =>
          LET u == last'.tok.user_id IN
          /\ u \notin DOMAIN users
                => last'.code = 401 /\ UNCHANGED <<users, orders, ops>>
          /\ (AdminGuarded(last') /\ u \in DOMAIN users /\ ~users[u].isAdmin)
                => last'.code = 403 /\ UNCHANGED <<users, orders, ops>>]_vars

\* C30 witness: u1 has cleared u2's isAdmin; u2's request to delete or update
\* a user, sent after that with a token that says isAdmin, is answered 403.
C30_Witness ==
    /\ AdminGuarded(last) /\ last.tok = AdminTokenOf("u2") /\ last.code = 403
    /\ \E k \in DOMAIN ops :
          /\ ops[k].op = "update_user" /\ ops[k].pc = "done" /\ ops[k].code = 200
          /\ ops[k].target = "u2" /\ ops[k].set.isAdmin = "no"
    /\ "u2" \in DOMAIN users /\ ~users["u2"].isAdmin

----------------------------------------------------------------------------
(* Properties of create_razorpay_order *)

\* the amount is missing, non-numeric, <= 0 or below 100 paise
AmountRejected(amount) ==
    \/ amount.k \in {"missing", "str", "bool"}
    \/ amount.k = "num" /\ amount.v < 1000

\* C26: a create_razorpay_order request is answered, after at most one call
\* of the gateway; when the keys are not configured or the gateway fails
\* the answer is 500 and the call is not repeated; when the amount is missing,
\* non-numeric, <= 0 or below 100 paise the answer is 400 and the gateway is
\* not called.
C26_SingleAttempt ==
    (last.op = "create_razorpay_order" /\ TokenRequired(last.tok).code = 0
       /\ last.data.kind = "json")
    => /\ last.calls <= 1
       /\ last.code \in {200, 400, 500}
       /\ last.gateway = "error" => last.code = 500 /\ last.calls = 1
       /\ AmountRejected(last.data.amount) => last.code = 400 /\ last.calls = 0
       /\ (~AmountRejected(last.data.amount) /\ last.data.amount.k = "num"
             /\ last.keys = "missing") => last.code = 500 /\ last.calls = 0

----------------------------------------------------------------------------
(* Properties of a store written by the application alone *)

----------------------------------------------------------------------------
(* Properties of the events razorpay_webhook has no branch for *)

\* the body parses to an event that is neither payment.captured nor
\* payment.failed, to a payment.captured event without order_id or with an
\* entity status other than captured, or to a payment.failed event without
\* order_id
Unhandled(body) ==
    /\ body.kind = "json"
    /\ \/ body.event \notin {"payment.captured", "payment.failed"}
       \/ body.event = "payment.captured" /\ (body.order_id = "" \/ body.status # "captured")
       \/ body.event = "payment.failed" /\ body.order_id = ""

====
